---- MODULE Spec2Model ----
(***************************************************************************)
(* Model of feathers-offline-owndata: the engine (base-engine.js), the     *)
(* replicator (base-replicator.js), the optimistic mutator                 *)
(* (owndata-mutator.js, first variant, with time-limited remote calls) and *)
(* the time limit wrapper (utils/time-limit.js).  The remote service is    *)
(* the environment: a keyed collection that stamps updatedAt on every      *)
(* write and pushes one change event per write to its registered           *)
(* listeners, as the fixture of the test-suite does.                       *)
(***************************************************************************)
EXTENDS Integers, Sequences, FiniteSets, TLC

(* ----------------------------- bounds ---------------------------------- *)
MaxId == 1
MaxOrder == 1
MaxTime == 3
MaxCalls == 2
MaxConnects == 2
MaxForeign == 1
MaxOverlapConnects == 3
MaxSharedCalls == 1
MaxStore == 3
MaxQueue == 2

(* ------------------------- program constants --------------------------- *)
DOB == 0
NoVal == -1
UuidBase == 10
MintBase == 100
PubLimit == 0

Ids == 0..MaxId
Orders == 0..MaxOrder
Uuids == {UuidBase + i : i \in Ids}
ConnIds == {"c1", "c2"}

(* ------------------------------ records -------------------------------- *)
\* A JavaScript value that is either an object with the fields id, uuid,
\* order, updatedAt (NoVal: the field is absent) or undefined/null.
Rec(i, u, o, t) == [obj |-> TRUE, id |-> i, uuid |-> u, order |-> o, updatedAt |-> t]
Undef == [obj |-> FALSE, id |-> NoVal, uuid |-> NoVal, order |-> NoVal, updatedAt |-> NoVal]
EmptyObj == Rec(NoVal, NoVal, NoVal, NoVal)

\* Object.assign({}, obj): a copy of the own fields; of undefined it is {}.
shallowClone(r) == IF r.obj THEN r ELSE EmptyObj

\* The record without its timestamp (the tests compare "except updatedAt").
Strip(r) == [r EXCEPT !.updatedAt = NoVal]

\* A publication that lets every record pass.
PublicationAll(pub, r) == TRUE

\* publication: record => record.order <= limit; "undefined <= n" is false.
Publication(pub, r) == (~pub) \/ (r.order # NoVal /\ r.order <= PubLimit)

\* a > b on field values: a comparison with undefined is false.
Gt(x, y) == x # NoVal /\ y # NoVal /\ x > y

\* Replicator.sort('order'): the comparator a.order > b.order ? 1 : ...
sort(a, b) == IF Gt(a.order, b.order) THEN 1 ELSE IF Gt(b.order, a.order) THEN -1 ELSE 0

\* Replicator.multiSort({ id: -1 }): descending by id.
multiSort(a, b) == IF Gt(a.id, b.id) THEN -1 ELSE IF Gt(b.id, a.id) THEN 1 ELSE 0

\* The sort functions an application configures: "order" is
\* Replicator.sort('order'), "idDesc" is Replicator.multiSort({ id: -1 }),
\* "" is none.
Sorters == {"order", "idDesc"}
Compare(sorter, a, b) == IF sorter = "order" THEN sort(a, b) ELSE multiSort(a, b)

\* Array.prototype.sort with that comparator (stable).
RECURSIVE SortInsert(_, _, _)
SortInsert(sorter, s, x) ==
  IF s = << >> THEN << x >>
  ELSE IF Compare(sorter, s[Len(s)], x) > 0
       THEN Append(SortInsert(sorter, SubSeq(s, 1, Len(s) - 1), x), s[Len(s)])
       ELSE Append(s, x)

RECURSIVE ArraySort(_, _)
ArraySort(sorter, s) ==
  IF s = << >> THEN << >>
  ELSE SortInsert(sorter, ArraySort(sorter, SubSeq(s, 1, Len(s) - 1)), s[Len(s)])

\* if (this._sorter) records.sort(this._sorter)
Sorted(sorter, s) == IF sorter # "" THEN ArraySort(sorter, s) ELSE s

\* array.splice(i, 1) taking nothing out.
SpliceKeeps(s, i) == s

\* array.splice(i, 1)
Splice(s, i) == SubSeq(s, 1, i - 1) \o SubSeq(s, i + 1, Len(s))

(* ------------------------------ engine --------------------------------- *)
\* _findIndex: the first index (1-based) of the array at which the predicate
\* holds, 0 if none; hits[i] is the predicate's value on element i.
FindIndex(hits) ==
  IF \E i \in 1..Len(hits) : hits[i]
  THEN CHOOSE i \in 1..Len(hits) : hits[i] /\ \A j \in 1..(i - 1) : ~hits[j]
  ELSE 0

\* _findIndexReversed: the last index at which the predicate holds, 0 if none.
FindIndexReversed(hits) ==
  IF \E i \in 1..Len(hits) : hits[i]
  THEN CHOOSE i \in 1..Len(hits) : hits[i] /\ \A j \in (i + 1)..Len(hits) : ~hits[j]
  ELSE 0

\* A lookup predicate that never finds the record.
SameIdNever(record, remoteRecord) == FALSE

\* record[idName] === remoteRecord[idName] with idName = 'id' in remoteRecord
\* ? 'id' : '_id'.  No record of the model carries an _id field, so for a
\* remoteRecord without id both sides are undefined and every record matches.
SameId(record, remoteRecord) ==
  IF remoteRecord.id # NoVal THEN record.id = remoteRecord.id ELSE TRUE

Event(source, action, eventName, record) ==
  [source |-> source, action |-> action, eventName |-> eventName, record |-> record]

NoEvent == Event(NoVal, "", "", EmptyObj)

\* _mutateStore that broadcasts 'left-pub' and 'remove' without having taken
\* the record out of records.
MutateStoreKeepsRecord(recs, pub, sorter, eventName, remoteRecord, source, t) ==
  LET index == FindIndex([i \in 1..Len(recs) |-> SameId(recs[i], remoteRecord)])
      beforeRecord == IF index > 0 THEN recs[index] ELSE Undef
      spliced == IF index > 0 THEN Splice(recs, index) ELSE recs
      stamped == [remoteRecord EXCEPT !.updatedAt = t]
  IN  IF eventName = "removed"
      THEN [records |-> recs,
            emit |-> IF index > 0 \/ (source = 0 /\ Publication(pub, remoteRecord))
                     THEN Event(source, "remove", eventName, remoteRecord)
                     ELSE NoEvent,
            ret |-> beforeRecord]
      ELSE IF ~Publication(pub, remoteRecord)
      THEN [records |-> recs,
            emit |-> IF index > 0
                     THEN Event(source, "left-pub", eventName, remoteRecord)
                     ELSE NoEvent,
            ret |-> Undef]
      ELSE [records |-> Sorted(sorter, Append(spliced, stamped)),
            emit |-> Event(source, "mutated", eventName, stamped),
            ret |-> stamped]

\* _mutateStore(eventName, remoteRecord, source): the new records, the
\* descriptor it broadcast (NoEvent when it emitted nothing) and its return
\* value.  t is the value of new Date().
MutateStore(recs, pub, sorter, eventName, remoteRecord, source, t) ==
  LET index == FindIndex([i \in 1..Len(recs) |-> SameId(recs[i], remoteRecord)])
      beforeRecord == IF index > 0 THEN recs[index] ELSE Undef
      spliced == IF index > 0 THEN Splice(recs, index) ELSE recs
      stamped == [remoteRecord EXCEPT !.updatedAt = t]
  IN  IF eventName = "removed"
      THEN [records |-> spliced,
            emit |-> IF index > 0 \/ (source = 0 /\ Publication(pub, remoteRecord))
                     THEN Event(source, "remove", eventName, remoteRecord)
                     ELSE NoEvent,
            ret |-> beforeRecord]
      ELSE IF ~Publication(pub, remoteRecord)
      THEN [records |-> spliced,
            emit |-> IF index > 0
                     THEN Event(source, "left-pub", eventName, remoteRecord)
                     ELSE NoEvent,
            ret |-> Undef]
      ELSE [records |-> Sorted(sorter, Append(spliced, stamped)),
            emit |-> Event(source, "mutated", eventName, stamped),
            ret |-> stamped]

\* A queue entry: { eventName, record, args }.  args holds what is replayed:
\* the id argument (NoVal for create) and the data argument (EmptyObj for
\* remove).  tag is the number of the local call that enqueued it (history).
QEntry(eventName, record, argId, argData, tag) ==
  [eventName |-> eventName, record |-> record, argId |-> argId,
   argData |-> argData, tag |-> tag]

NoEntry == QEntry("", Undef, NoVal, EmptyObj, 0)

\* _addQueuedEvent recording net changes: an entry for the same record is
\* overwritten instead of a new one being pushed.
AddQueuedEventCoalescing(q, entry) ==
  LET index == FindIndexReversed([i \in 1..Len(q) |-> q[i].record.id = entry.record.id])
  IN  IF index > 0 THEN [q EXCEPT ![index] = entry] ELSE Append(q, entry)

\* _addQueuedEvent
AddQueuedEvent(q, entry) == Append(q, entry)

\* Object.assign({}, a, b): the fields of b over those of a.
Assign(a, b) ==
  [obj |-> TRUE,
   id |-> IF b.id # NoVal THEN b.id ELSE a.id,
   uuid |-> IF b.uuid # NoVal THEN b.uuid ELSE a.uuid,
   order |-> IF b.order # NoVal THEN b.order ELSE a.order,
   updatedAt |-> IF b.updatedAt # NoVal THEN b.updatedAt ELSE a.updatedAt]

\* queued[index].event: the entries are { eventName, record, args }, so the
\* field read by _addQueuedNetEvent is undefined.
EventOf(e) == ""

\* _addQueuedNetEvent(eventName, localRecord, ...args): the entry of the
\* record is looked up from the newest end by id (or _id), never by uuid.
AddQueuedNetEvent(q, entry) ==
  IF Len(q) > 0
  THEN LET index == FindIndexReversed([i \in 1..Len(q) |-> SameId(q[i].record, entry.record)])
       IN  IF index > 0
           THEN IF EventOf(q[index]) # "remove"
                THEN [queued |-> [q EXCEPT ![index] =
                                    [entry EXCEPT !.record = Assign(q[index].record, entry.record)]],
                      throws |-> FALSE]
                ELSE IF entry.eventName # "create"
                THEN [queued |-> q, throws |-> TRUE]
                ELSE [queued |-> SubSeq(q, 1, index) \o << entry >> \o SubSeq(q, index + 1, Len(q)),
                      throws |-> FALSE]
           ELSE [queued |-> AddQueuedEvent(q, entry), throws |-> FALSE]
  ELSE [queued |-> AddQueuedEvent(q, entry), throws |-> FALSE]

\* _removeQueuedEvent throws a TypeError (and changes nothing) when
\* localRecord is undefined ('id' in undefined) or when the backward scan
\* reads record[idName] of an entry whose record is undefined before it
\* reaches a match.  this._useUuid is never set (the constructor sets
\* useUuid), so idName is 'id', or '_id' for a record without id.
QMatch(e, eventName, localRecord) ==
  /\ e.record.obj
  /\ (localRecord.id # NoVal => e.record.id = localRecord.id)
  /\ e.eventName = eventName

RemoveQueuedThrows(q, eventName, localRecord) ==
  LET index == FindIndexReversed([i \in 1..Len(q) |-> QMatch(q[i], eventName, localRecord)])
  IN  \/ ~localRecord.obj
      \/ \E i \in 1..Len(q) : i > index /\ ~q[i].record.obj

RemoveQueuedIndex(q, eventName, localRecord) ==
  IF RemoveQueuedThrows(q, eventName, localRecord) THEN 0
  ELSE FindIndexReversed([i \in 1..Len(q) |-> QMatch(q[i], eventName, localRecord)])

\* _removeQueuedEvent(eventName, localRecord, updatedAt): the queue and
\* syncedAt afterwards (updatedAt = NoVal: undefined or null).
RemoveQueuedEvent(q, synced, eventName, localRecord, updatedAt) ==
  LET index == RemoveQueuedIndex(q, eventName, localRecord)
  IN  [queued |-> IF index > 0 THEN Splice(q, index) ELSE q,
       syncedAt |-> IF updatedAt # NoVal /\ ~RemoveQueuedThrows(q, eventName, localRecord)
                    THEN updatedAt ELSE synced]

(* ----------------------------- time limit ------------------------------ *)
\* timeLimit settles with [err, res].  On success the token is aborted with
\* { _ok: true, res } and the wrapper returns [null, { res, limit }]: the
\* remote's record sits under the key res and the wrapper object has no
\* updatedAt key of its own (reading res.updatedAt yields undefined).
TimeLimitOk(remoteRes) == [res |-> remoteRes, updatedAt |-> NoVal]

\* On a failure within the limit the token is aborted with { _ok: false, err }
\* and the wrapper returns [{ err, limit }, null]; when the limit elapses
\* first it returns [{ timeout: true, args, limit }, null].
Null == [null |-> TRUE]
Limit == "limit"
RemoteError == [name |-> "BadRequest"]
TimeLimitErr(remoteErr) == [err |-> remoteErr, limit |-> Limit]
TimeLimitTimeout(args) == [timeout |-> TRUE, args |-> args, limit |-> Limit]

(* ------------------------------- state --------------------------------- *)
VARIABLES
  records,     \* store.records
  queued,      \* store.queued
  syncedAt,    \* store.syncedAt
  last,        \* store.last
  listening,   \* engine.listening
  pub,         \* a publication is configured (options.publication)
  sorter,      \* the configured sort function (options.sort, changeSort)
  remote,      \* the remote collection, by server id
  registered,  \* how many times the engine's handlers are registered remotely
  calls,       \* the time-limited remote calls of the mutator, by tag
  conn,        \* the connect() invocations in progress
  now,         \* the clock (new Date()); the remote stamps are strictly increasing
  emitted,     \* what the step just taken emitted on the 'events' channel
  result,      \* what the step just taken returned to the application
  nConnects,   \* connect() calls so far
  nForeign     \* writes of other clients so far

vars == << records, queued, syncedAt, last, listening, pub, sorter, remote,
           registered, calls, conn, now, emitted, result, nConnects, nForeign >>

engineVars == << records, queued, syncedAt, last, listening >>
configVars == << pub, sorter >>

\* before: store.records when connect() was called (history).
IdleConn == [pc |-> "idle", since |-> DOB, snap |-> << >>, el |-> NoEntry, before |-> << >>]
NoResult == [method |-> "", outcome |-> "", value |-> Undef, tag |-> 0]

Logged(ev, tag) == [ev |-> ev, tag |-> tag]

Init ==
  /\ records = << >>
  /\ queued = << >>
  /\ syncedAt = DOB
  /\ last = Event(NoVal, "", "", EmptyObj)
  /\ listening = FALSE
  /\ pub \in BOOLEAN
  /\ sorter = "order"
  /\ remote = [i \in Ids |-> IF i = 0 THEN Rec(0, UuidBase, 0, DOB + 1) ELSE Undef]
  /\ registered = 0
  /\ calls = << >>
  /\ conn = [c \in ConnIds |-> IdleConn]
  /\ now = DOB + 1
  /\ emitted = << >>
  /\ result = NoResult
  /\ nConnects = 0
  /\ nForeign = 0

(* ------------------------- emitting, listeners ------------------------- *)
\* that.emit('events', records, last): the emitted events with one more.
Emit(log, ev, tag) == IF ev = NoEvent THEN log ELSE Append(log, Logged(ev, tag))

\* broadcast() also stores the descriptor in store.last.
LastAfter(lst, ev) == IF ev = NoEvent THEN lst ELSE ev

\* engine.removeListeners(): acts only while listening.
RemoveListeners(isListening, reg, log) ==
  IF isListening
  THEN [listening |-> FALSE,
        registered |-> IF reg > 0 THEN reg - 1 ELSE 0,
        emitted |-> Emit(log, Event(NoVal, "remove-listeners", "", EmptyObj), 0)]
  ELSE [listening |-> isListening, registered |-> reg, emitted |-> log]

\* engine.addListeners(): registers the four handlers once more.
AddListeners(reg, log) ==
  [listening |-> TRUE,
   registered |-> reg + 1,
   emitted |-> Emit(log, Event(NoVal, "add-listeners", "", EmptyObj), 0)]

\* Deliver with the engine's handlers never called.
DeliverDropped(st, n, eventName, record, tag, t) == st

\* The remote service pushes one change event: every registration of the
\* engine's handler runs _mutateStore(eventName, record, 0).
RECURSIVE Deliver(_, _, _, _, _, _)
Deliver(st, n, eventName, record, tag, t) ==
  IF n = 0 THEN st
  ELSE LET m == MutateStore(st.records, pub, sorter, eventName, record, 0, t)
       IN  Deliver([records |-> m.records,
                    last |-> LastAfter(st.last, m.emit),
                    emitted |-> Emit(st.emitted, m.emit, tag)],
                   n - 1, eventName, record, tag, t)

\* The sources of the events in log, in order.
Sources(log) == [i \in 1..Len(log) |-> log[i].ev.source]

(* --------------------------- remote service ---------------------------- *)
\* What the remote service does with one call (feathers-memory behind the
\* setNow('updatedAt') hook): ok tells whether the call can succeed, after
\* is the collection afterwards, res the record it answers and pushes.
FreeIds(coll) == {i \in Ids : ~coll[i].obj}

RemoteCall(coll, method, id, data, t, autoId) ==
  IF method = "create"
  THEN LET key == IF data.id # NoVal THEN data.id ELSE autoId
           rec == [data EXCEPT !.id = key, !.updatedAt = t]
       IN  IF key \in Ids
           THEN [ok |-> TRUE, after |-> [coll EXCEPT ![key] = rec],
                 res |-> rec, eventName |-> "created"]
           ELSE [ok |-> FALSE, after |-> coll, res |-> Undef, eventName |-> ""]
  ELSE IF ~(id \in Ids /\ coll[id].obj)
  THEN [ok |-> FALSE, after |-> coll, res |-> Undef, eventName |-> ""]
  ELSE IF method = "update"
  THEN LET rec == [data EXCEPT !.id = id, !.updatedAt = t]
       IN  [ok |-> TRUE, after |-> [coll EXCEPT ![id] = rec],
            res |-> rec, eventName |-> "updated"]
  ELSE IF method = "patch"
  THEN LET old == coll[id]
           rec == Rec(id,
                      IF data.uuid # NoVal THEN data.uuid ELSE old.uuid,
                      IF data.order # NoVal THEN data.order ELSE old.order,
                      t)
       IN  [ok |-> TRUE, after |-> [coll EXCEPT ![id] = rec],
            res |-> rec, eventName |-> "patched"]
  ELSE [ok |-> TRUE, after |-> [coll EXCEPT ![id] = Undef],
        res |-> coll[id], eventName |-> "removed"]

\* The ids the remote may assign to a record created without one.
AutoIds(coll, data) == IF data.id # NoVal \/ FreeIds(coll) = {} THEN {NoVal} ELSE FreeIds(coll)

(* ------------------------------ mutator -------------------------------- *)
findIdIndex(array, id) == FindIndex([i \in 1..Len(array) |-> array[i].id = id])
findUuidIndex(array, uuid) == FindIndex([i \in 1..Len(array) |-> array[i].uuid = uuid])
getId(record) == record.id

\* One time-limited remote call: what the remote did with it (pending,
\* applied, failed), how timeLimit settled for the mutator (waiting, ok,
\* err, timeout).  History of the mutation: seen, the sources of the events
\* emitted for it; sent, how often processQueuedEvents sent its entry;
\* writes, how often the remote service carried it out.
Call(method, id, data, localRecord, seen) ==
  [method |-> method, id |-> id, data |-> data, localRecord |-> localRecord,
   remote |-> "pending", client |-> "waiting", res |-> Undef, seen |-> seen,
   sent |-> 0, writes |-> 0]

\* The pair [err, res] with which the time-limited call c has resolved
\* (<< >> while it has not).
TimeLimitResult(c) ==
  IF c.client = "ok" THEN << Null, TimeLimitOk(c.res) >>
  ELSE IF c.client = "err" THEN << TimeLimitErr(RemoteError), Null >>
  ELSE IF c.client = "timeout" THEN << TimeLimitTimeout(<< c.id, c.data >>), Null >>
  ELSE << >>

Result(method, outcome, value, tag) ==
  [method |-> method, outcome |-> outcome, value |-> value, tag |-> tag]

NextTag == Len(calls) + 1

\* _checkConnected with the check left out.
CheckConnectedAlways == TRUE

\* _checkConnected passes: replicator.connected, that is engine.listening.
CheckConnected == listening

Rejected(method, outcome) ==
  /\ result' = Result(method, outcome, Undef, 0)
  /\ emitted' = << >>
  /\ UNCHANGED << engineVars, configVars, remote, registered, calls, conn, now,
                  nConnects, nForeign >>

\* The part of _create/_update/_patch/_remove that follows the optimistic
\* _mutateStore: enqueue, start the remote call, resolve with newData.
Enqueue(method, m, entry, call) ==
  /\ records' = m.records
  /\ last' = LastAfter(last, m.emit)
  /\ emitted' = Emit(<< >>, m.emit, NextTag)
  /\ queued' = AddQueuedEvent(queued, entry)
  /\ calls' = Append(calls, call)
  /\ result' = Result(method, "ok", m.ret, NextTag)
  /\ UNCHANGED << syncedAt, listening, configVars, remote, registered, conn,
                  now, nConnects, nForeign >>

\* getId(undefined) throws after the store was mutated: the call rejects,
\* nothing is enqueued and no remote call is made.
ThrowsAfterMutate(method, m) ==
  /\ records' = m.records
  /\ last' = LastAfter(last, m.emit)
  /\ emitted' = Emit(<< >>, m.emit, 0)
  /\ result' = Result(method, "TypeError", Undef, 0)
  /\ UNCHANGED << queued, calls, syncedAt, listening, configVars, remote,
                  registered, conn, now, nConnects, nForeign >>

SeenOf(m) == Sources(Emit(<< >>, m.emit, 0))

\* _create that looks for the uuid only after the optimistic _mutateStore.
LocalCreateChecksLate(dId, dUuid, order) ==
  /\ Len(calls) < MaxCalls
  /\ IF ~CheckConnected THEN Rejected("create", "BadRequest")
     ELSE LET uuid == IF dUuid = NoVal THEN MintBase + NextTag ELSE dUuid
              data == Rec(dId, uuid, order, NoVal)
              m == MutateStore(records, pub, sorter, "created", data, 1, now)
              newData == m.ret
          IN  IF findUuidIndex(records, uuid) > 0
              THEN /\ records' = m.records
                   /\ last' = LastAfter(last, m.emit)
                   /\ emitted' = Emit(<< >>, m.emit, 0)
                   /\ result' = Result("create", "BadRequest", Undef, 0)
                   /\ UNCHANGED << queued, calls, syncedAt, listening, configVars, remote,
                                   registered, conn, now, nConnects, nForeign >>
              ELSE Enqueue("create", m,
                           QEntry("create", newData, NoVal, shallowClone(newData), NextTag),
                           Call("create", NoVal, shallowClone(newData), newData, SeenOf(m)))

\* _create(data, params)
LocalCreate(dId, dUuid, order) ==
  /\ Len(calls) < MaxCalls
  /\ IF ~CheckConnected THEN Rejected("create", "BadRequest")
     ELSE LET uuid == IF dUuid = NoVal THEN MintBase + NextTag ELSE dUuid
              data == Rec(dId, uuid, order, NoVal)
          IN  IF findUuidIndex(records, uuid) > 0 THEN Rejected("create", "BadRequest")
              ELSE LET m == MutateStore(records, pub, sorter, "created", data, 1, now)
                       newData == m.ret
                   IN  Enqueue("create", m,
                               QEntry("create", newData, NoVal, shallowClone(newData), NextTag),
                               Call("create", NoVal, shallowClone(newData), newData, SeenOf(m)))

\* _get(uuid, params): no connection check; nothing but the answer.
LocalGet(uuid) ==
  /\ LET index == findUuidIndex(records, uuid)
     IN  result' = IF index = 0 THEN Result("get", "NotFound", Undef, 0)
                   ELSE Result("get", "ok", records[index], 0)
  /\ emitted' = << >>
  /\ UNCHANGED << engineVars, configVars, remote, registered, calls, conn, now,
                  nConnects, nForeign >>

\* _update(id, data, params)
LocalUpdate(id, dId, hasUuid, order) ==
  /\ Len(calls) < MaxCalls
  /\ IF ~CheckConnected THEN Rejected("update", "BadRequest")
     ELSE IF ~hasUuid THEN Rejected("update", "BadRequest")
     ELSE LET index == findIdIndex(records, id)
          IN  IF index = 0 THEN Rejected("update", "NotFound")
              ELSE LET beforeUuid == records[index].uuid
                       data == Rec(dId, beforeUuid, order, NoVal)
                       m == MutateStore(records, pub, sorter, "updated", data, 1, now)
                       newData == m.ret
                   IN  IF ~newData.obj THEN ThrowsAfterMutate("update", m)
                       ELSE Enqueue("update", m,
                                    QEntry("update", newData, getId(newData), shallowClone(newData), NextTag),
                                    Call("update", getId(newData), shallowClone(newData),
                                         shallowClone(newData), SeenOf(m)))

\* _patch(id, data, params) with id not null
LocalPatch(id, order) ==
  /\ Len(calls) < MaxCalls
  /\ IF ~CheckConnected THEN Rejected("patch", "BadRequest")
     ELSE LET index == findIdIndex(records, id)
          IN  IF index = 0 THEN Rejected("patch", "NotFound")
              ELSE LET beforeRecord == shallowClone(records[index])
                       afterRecord == [beforeRecord EXCEPT !.order = order]
                       m == MutateStore(records, pub, sorter, "patched", afterRecord, 1, now)
                       newData == m.ret
                   IN  IF ~newData.obj THEN ThrowsAfterMutate("patch", m)
                       ELSE Enqueue("patch", m,
                                    QEntry("patch", newData, getId(newData), shallowClone(newData), NextTag),
                                    Call("patch", getId(newData), shallowClone(newData),
                                         newData, SeenOf(m)))

\* _remove(id, params) with id not null
LocalRemove(id) ==
  /\ Len(calls) < MaxCalls
  /\ IF ~CheckConnected THEN Rejected("remove", "BadRequest")
     ELSE LET index == findIdIndex(records, id)
          IN  IF index = 0 THEN Rejected("remove", "NotFound")
              ELSE LET beforeRecord == shallowClone(records[index])
                       m == MutateStore(records, pub, sorter, "removed", beforeRecord, 1, now)
                   IN  Enqueue("remove", m,
                               QEntry("remove", beforeRecord, id, EmptyObj, NextTag),
                               Call("remove", id, EmptyObj, beforeRecord, SeenOf(m)))

(* ------------------- the mutator's remote calls ------------------------ *)
\* A remote write carrying out the mutation of local call tag: the events it
\* pushed and the write itself are added to the history of that call
\* (tag 0: a write of another client).
Seen(cs, tag, log) ==
  IF tag \in 1..Len(cs)
  THEN [cs EXCEPT ![tag].seen = @ \o Sources(log), ![tag].writes = @ + 1]
  ELSE cs

Sent(cs, tag) ==
  IF tag \in 1..Len(cs) THEN [cs EXCEPT ![tag].sent = @ + 1] ELSE cs

\* The remote service carries out call t (possibly after the time limit has
\* already elapsed) and pushes the change event.
RemoteApply(t) ==
  /\ t \in 1..Len(calls)
  /\ calls[t].remote = "pending"
  /\ now < MaxTime
  /\ now' = now + 1
  /\ \E autoId \in AutoIds(remote, calls[t].data) :
       LET r == RemoteCall(remote, calls[t].method, calls[t].id, calls[t].data, now', autoId)
           d == Deliver([records |-> records, last |-> last, emitted |-> << >>],
                        registered, r.eventName, r.res, t, now')
       IN  /\ r.ok
           /\ remote' = r.after
           /\ records' = d.records
           /\ last' = d.last
           /\ emitted' = d.emitted
           /\ calls' = Seen([calls EXCEPT ![t].remote = "applied", ![t].res = r.res],
                            t, d.emitted)
  /\ result' = NoResult
  /\ UNCHANGED << queued, syncedAt, listening, configVars, registered, conn,
                  nConnects, nForeign >>

\* The remote service fails call t; within the limit timeLimit settles with
\* [err, null] and the mutator only logs it.
RemoteFail(t) ==
  /\ t \in 1..Len(calls)
  /\ calls[t].remote = "pending"
  /\ calls' = [calls EXCEPT ![t].remote = "failed",
                            ![t].client = IF @ = "waiting" THEN "err" ELSE @]
  /\ emitted' = << >>
  /\ result' = NoResult
  /\ UNCHANGED << engineVars, configVars, remote, registered, conn, now,
                  nConnects, nForeign >>

\* Respond that also settles a call whose time limit has already elapsed.
RespondLate(t) ==
  /\ t \in 1..Len(calls)
  /\ calls[t].remote = "applied"
  /\ calls[t].client \in {"waiting", "timeout"}
  /\ LET res == TimeLimitOk(calls[t].res)
         updatedAt == IF calls[t].method = "remove" THEN NoVal ELSE res.updatedAt
         rq == RemoveQueuedEvent(queued, syncedAt, calls[t].method,
                                 calls[t].localRecord, updatedAt)
     IN  /\ queued' = rq.queued
         /\ syncedAt' = rq.syncedAt
  /\ calls' = [calls EXCEPT ![t].client = "ok"]
  /\ emitted' = << >>
  /\ result' = NoResult
  /\ UNCHANGED << records, last, listening, configVars, remote, registered, conn,
                  now, nConnects, nForeign >>

\* The answer of an applied call arrives within the limit: timeLimit
\* settles with [null, res] and the mutator calls _removeQueuedEvent.
Respond(t) ==
  /\ t \in 1..Len(calls)
  /\ calls[t].remote = "applied"
  /\ calls[t].client = "waiting"
  /\ LET res == TimeLimitOk(calls[t].res)
         updatedAt == IF calls[t].method = "remove" THEN NoVal ELSE res.updatedAt
         rq == RemoveQueuedEvent(queued, syncedAt, calls[t].method,
                                 calls[t].localRecord, updatedAt)
     IN  /\ queued' = rq.queued
         /\ syncedAt' = rq.syncedAt
  /\ calls' = [calls EXCEPT ![t].client = "ok"]
  /\ emitted' = << >>
  /\ result' = NoResult
  /\ UNCHANGED << records, last, listening, configVars, remote, registered, conn,
                  now, nConnects, nForeign >>

\* The time limit of call t elapses before an answer has arrived: timeLimit
\* settles with [{ timeout: true }, null]; the remote call is not cancelled.
Timeout(t) ==
  /\ t \in 1..Len(calls)
  /\ calls[t].client = "waiting"
  /\ calls' = [calls EXCEPT ![t].client = "timeout"]
  /\ emitted' = << >>
  /\ result' = NoResult
  /\ UNCHANGED << engineVars, configVars, remote, registered, conn, now,
                  nConnects, nForeign >>

(* ----------------------------- replicator ------------------------------ *)
\* What service.find returns for { updatedAt: { $gte: since } }, in key order.
SnapshotQuery(coll, since) ==
  SelectSeq([i \in 1..(MaxId + 1) |-> coll[i - 1]],
            LAMBDA r : r.obj /\ r.updatedAt >= since)

RECURSIVE MaxUpdatedAt(_, _)
MaxUpdatedAt(recs, acc) ==
  IF recs = << >> THEN acc
  ELSE MaxUpdatedAt(Tail(recs), IF Head(recs).updatedAt > acc THEN Head(recs).updatedAt ELSE acc)

\* engine.snapshot(records)
Snapshot(recs) ==
  [records |-> Sorted(sorter, recs),
   syncedAt |-> MaxUpdatedAt(recs, DOB),
   last |-> Event(NoVal, "snapshot", "", EmptyObj)]

\* processQueuedEvents taking the entries from the end of the queue (pop).
ProcessNextFromEnd(c, q, stop, reg, log, isListening, cs) ==
  IF Len(q) > 0 /\ ~stop
  THEN /\ queued' = SubSeq(q, 1, Len(q) - 1)
       /\ conn' = [conn EXCEPT ![c].pc = "replay", ![c].el = q[Len(q)], ![c].snap = << >>]
       /\ calls' = Sent(cs, q[Len(q)].tag)
       /\ listening' = isListening
       /\ registered' = reg
       /\ emitted' = log
  ELSE LET a == AddListeners(reg, log)
       IN  /\ queued' = q
           /\ conn' = [conn EXCEPT ![c] = IdleConn]
           /\ calls' = cs
           /\ listening' = a.listening
           /\ registered' = a.registered
           /\ emitted' = a.emitted

\* processQueuedEvents returning after the first replayed entry (if for while).
ProcessNextOnce(c, q, stop, reg, log, isListening, cs) ==
  IF Len(q) > 0 /\ ~stop /\ conn[c].pc # "replay"
  THEN /\ queued' = Tail(q)
       /\ conn' = [conn EXCEPT ![c].pc = "replay", ![c].el = Head(q), ![c].snap = << >>]
       /\ calls' = Sent(cs, Head(q).tag)
       /\ listening' = isListening
       /\ registered' = reg
       /\ emitted' = log
  ELSE LET a == AddListeners(reg, log)
       IN  /\ queued' = q
           /\ conn' = [conn EXCEPT ![c] = IdleConn]
           /\ calls' = cs
           /\ listening' = a.listening
           /\ registered' = a.registered
           /\ emitted' = a.emitted

\* processQueuedEvents that goes on after a failed call (stop ignored).
ProcessNextIgnoresStop(c, q, stop, reg, log, isListening, cs) ==
  IF Len(q) > 0 /\ (~stop \/ cs[Head(q).tag].sent < 2)
  THEN /\ queued' = Tail(q)
       /\ conn' = [conn EXCEPT ![c].pc = "replay", ![c].el = Head(q), ![c].snap = << >>]
       /\ calls' = Sent(cs, Head(q).tag)
       /\ listening' = isListening
       /\ registered' = reg
       /\ emitted' = log
  ELSE LET a == AddListeners(reg, log)
       IN  /\ queued' = q
           /\ conn' = [conn EXCEPT ![c] = IdleConn]
           /\ calls' = cs
           /\ listening' = a.listening
           /\ registered' = a.registered
           /\ emitted' = a.emitted

\* processQueuedEvents between two awaits: take the next entry and send it,
\* or return, after which connect attaches the listeners.
ProcessNext(c, q, stop, reg, log, isListening, cs) ==
  IF Len(q) > 0 /\ ~stop
  THEN /\ queued' = Tail(q)
       /\ conn' = [conn EXCEPT ![c].pc = "replay", ![c].el = Head(q), ![c].snap = << >>]
       /\ calls' = Sent(cs, Head(q).tag)
       /\ listening' = isListening
       /\ registered' = reg
       /\ emitted' = log
  ELSE LET a == AddListeners(reg, log)
       IN  /\ queued' = q
           /\ conn' = [conn EXCEPT ![c] = IdleConn]
           /\ calls' = cs
           /\ listening' = a.listening
           /\ registered' = a.registered
           /\ emitted' = a.emitted

\* connect() that leaves the listeners attached.
ConnectStartKeepsListeners(c, limit) ==
  /\ conn[c].pc = "idle"
  /\ c = "c2" => conn["c1"].pc # "idle"
  /\ nConnects < limit
  /\ nConnects' = nConnects + 1
  /\ emitted' = << >>
  /\ conn' = [conn EXCEPT ![c] = [IdleConn EXCEPT !.pc = "fetch", !.since = syncedAt,
                                                   !.before = records]]
  /\ result' = NoResult
  /\ UNCHANGED << records, queued, syncedAt, last, listening, registered, configVars,
                  remote, calls, now, nForeign >>

\* connect(): detach the listeners, build the query, start the snapshot.
\* (The second invocation is used only while the first is in progress.)
ConnectStartWithin(c, limit) ==
  /\ conn[c].pc = "idle"
  /\ c = "c2" => conn["c1"].pc # "idle"
  /\ nConnects < limit
  /\ nConnects' = nConnects + 1
  /\ LET r == RemoveListeners(listening, registered, << >>)
     IN  /\ listening' = r.listening
         /\ registered' = r.registered
         /\ emitted' = r.emitted
  /\ conn' = [conn EXCEPT ![c] = [IdleConn EXCEPT !.pc = "fetch", !.since = syncedAt,
                                                   !.before = records]]
  /\ result' = NoResult
  /\ UNCHANGED << records, queued, syncedAt, last, configVars, remote, calls, now,
                  nForeign >>

ConnectStart(c) == ConnectStartWithin(c, MaxConnects)

\* The remote service answers the snapshot query.
SnapshotFetch(c) ==
  /\ conn[c].pc = "fetch"
  /\ conn' = [conn EXCEPT ![c].pc = "install",
                          ![c].snap = SnapshotQuery(remote, conn[c].since)]
  /\ emitted' = << >>
  /\ result' = NoResult
  /\ UNCHANGED << engineVars, configVars, remote, registered, calls, now,
                  nConnects, nForeign >>

\* A failed snapshot query after which the listeners are attached all the same.
SnapshotFailAttaches(c) ==
  /\ conn[c].pc = "fetch"
  /\ conn' = [conn EXCEPT ![c] = IdleConn]
  /\ LET a == AddListeners(registered, << >>)
     IN  /\ listening' = a.listening
         /\ registered' = a.registered
         /\ emitted' = a.emitted
  /\ result' = NoResult
  /\ UNCHANGED << records, queued, syncedAt, last, configVars, remote, calls, now,
                  nConnects, nForeign >>

\* The snapshot query fails: connect rejects.
SnapshotFail(c) ==
  /\ conn[c].pc = "fetch"
  /\ conn' = [conn EXCEPT ![c] = IdleConn]
  /\ emitted' = << >>
  /\ result' = NoResult
  /\ UNCHANGED << engineVars, configVars, remote, registered, calls, now,
                  nConnects, nForeign >>

\* The continuation of connect: filter by the publication, engine.snapshot,
\* then processQueuedEvents up to its first remote call.
SnapshotInstall(c) ==
  /\ conn[c].pc = "install"
  /\ LET recs == SelectSeq(conn[c].snap, LAMBDA r : Publication(pub, r))
         sn == Snapshot(recs)
     IN  /\ records' = sn.records
         /\ syncedAt' = sn.syncedAt
         /\ last' = sn.last
         /\ ProcessNext(c, queued, FALSE, registered, Emit(<< >>, sn.last, 0), listening, calls)
  /\ result' = NoResult
  /\ UNCHANGED << configVars, remote, now, nConnects, nForeign >>

\* The replayed call of conn[c].el succeeds on the remote service, which
\* pushes its change event; processQueuedEvents goes on with the next entry.
ReplayOk(c) ==
  /\ conn[c].pc = "replay"
  /\ now < MaxTime
  /\ now' = now + 1
  /\ LET el == conn[c].el
     IN  \E autoId \in AutoIds(remote, el.argData) :
           LET r == RemoteCall(remote, el.eventName, el.argId, el.argData, now', autoId)
               d == Deliver([records |-> records, last |-> last, emitted |-> << >>],
                            registered, r.eventName, r.res, el.tag, now')
           IN  /\ r.ok
               /\ remote' = r.after
               /\ records' = d.records
               /\ last' = d.last
               /\ ProcessNext(c, queued, FALSE, registered, d.emitted, listening,
                              Seen(calls, el.tag, d.emitted))
  /\ result' = NoResult
  /\ UNCHANGED << syncedAt, configVars, nConnects, nForeign >>

\* ReplayFail with the failing entry pushed to the end of the queue.
ReplayFailRequeuesLast(c) ==
  /\ conn[c].pc = "replay"
  /\ ProcessNext(c, queued \o << conn[c].el >>, TRUE, registered, << >>, listening, calls)
  /\ result' = NoResult
  /\ UNCHANGED << records, syncedAt, last, configVars, remote, now,
                  nConnects, nForeign >>

\* The replayed call fails: the entry goes back to the head and the run stops.
ReplayFail(c) ==
  /\ conn[c].pc = "replay"
  /\ ProcessNext(c, << conn[c].el >> \o queued, TRUE, registered, << >>, listening, calls)
  /\ result' = NoResult
  /\ UNCHANGED << records, syncedAt, last, configVars, remote, now,
                  nConnects, nForeign >>

\* disconnect() that clears the flag and leaves the handlers registered.
DisconnectKeepsHandlers ==
  /\ LET r == RemoveListeners(listening, registered, << >>)
     IN  /\ listening' = r.listening
         /\ registered' = registered
         /\ emitted' = r.emitted
  /\ result' = NoResult
  /\ UNCHANGED << records, queued, syncedAt, last, configVars, remote, calls, conn,
                  now, nConnects, nForeign >>

\* disconnect(): engine.removeListeners(), which does nothing when the engine
\* is not listening.
Disconnect ==
  /\ LET r == RemoveListeners(listening, registered, << >>)
     IN  /\ listening' = r.listening
         /\ registered' = r.registered
         /\ emitted' = r.emitted
  /\ result' = NoResult
  /\ UNCHANGED << records, queued, syncedAt, last, configVars, remote, calls, conn,
                  now, nConnects, nForeign >>

\* changeSort that keeps the new function without sorting.
ChangeSortNoResort(s) ==
  /\ sorter' = s
  /\ records' = records
  /\ emitted' = Emit(<< >>, Event(NoVal, "change-sort", "", EmptyObj), 0)
  /\ result' = NoResult
  /\ UNCHANGED << queued, syncedAt, last, listening, pub, remote, registered, calls,
                  conn, now, nConnects, nForeign >>

\* changeSort(sort): the new function is kept and store.records re-sorted;
\* store.last is left alone.
ChangeSort(s) ==
  /\ sorter' = s
  /\ records' = Sorted(s, records)
  /\ emitted' = Emit(<< >>, Event(NoVal, "change-sort", "", EmptyObj), 0)
  /\ result' = NoResult
  /\ UNCHANGED << queued, syncedAt, last, listening, pub, remote, registered, calls,
                  conn, now, nConnects, nForeign >>

(* ---------------------------- environment ------------------------------ *)
\* Another client writes to the remote service.
ForeignWrite(method, id, order) ==
  /\ nForeign < MaxForeign
  /\ nForeign' = nForeign + 1
  /\ now < MaxTime
  /\ now' = now + 1
  /\ LET data == Rec(id, UuidBase + id, order, NoVal)
         r == RemoteCall(remote, method, id, data, now', NoVal)
         d == Deliver([records |-> records, last |-> last, emitted |-> << >>],
                      registered, r.eventName, r.res, 0, now')
     IN  /\ r.ok
         /\ method = "create" => ~remote[id].obj
         /\ remote' = r.after
         /\ records' = d.records
         /\ last' = d.last
         /\ emitted' = d.emitted
  /\ result' = NoResult
  /\ UNCHANGED << queued, syncedAt, listening, configVars, registered, calls, conn,
                  nConnects >>

\* The calls of the application: create({ id, uuid: UuidBase + id, order }),
\* update(id, { id, uuid?, order }), patch(id, { order }), remove(id).
LocalCall ==
  \/ \E i \in Ids, o \in Orders : LocalCreate(i, UuidBase + i, o)
  \/ \E i \in Ids, h \in BOOLEAN, o \in Orders : LocalUpdate(i, i, h, o)
  \/ \E i \in Ids, o \in Orders : LocalPatch(i, o)
  \/ \E i \in Ids : LocalRemove(i)

\* One client, one connect() at a time, nobody else writing to the remote.
Next ==
  \/ LocalCall
  \/ \E t \in 1..MaxCalls : RemoteApply(t)
  \/ \E t \in 1..MaxCalls : RemoteFail(t)
  \/ \E t \in 1..MaxCalls : Respond(t)
  \/ \E t \in 1..MaxCalls : Timeout(t)
  \/ ConnectStart("c1")
  \/ SnapshotFetch("c1")
  \/ SnapshotFail("c1")
  \/ SnapshotInstall("c1")
  \/ ReplayOk("c1")
  \/ ReplayFail("c1")
  \/ Disconnect

Spec == Init /\ [][Next]_vars

\* The same client when the remote service answers every request: the
\* snapshot query and each replayed call settle (resolve or reject), and the
\* continuation of a settled promise runs.
SpecLive ==
  /\ Init /\ [][Next]_vars
  /\ WF_vars(SnapshotFetch("c1") \/ SnapshotFail("c1"))
  /\ WF_vars(SnapshotInstall("c1"))
  /\ WF_vars(ReplayOk("c1") \/ ReplayFail("c1"))

\* One client next to another client that writes to the same remote service.
\* The application creates records without a server id, without a uuid (the
\* remote assigns the one, the mutator mints the other) or with the uuid of
\* record 0, updates with data whose id may differ from the id argument and
\* which may lack a uuid, patches, removes, gets by uuid and changes the sort
\* function; it makes MaxSharedCalls accepted calls.
SharedCall ==
  /\ Len(calls) < MaxSharedCalls
  /\ \/ \E u \in {NoVal, UuidBase}, o \in Orders : LocalCreate(NoVal, u, o)
     \/ \E i \in Ids, j \in Ids, h \in BOOLEAN, o \in Orders : LocalUpdate(i, j, h, o)
     \/ \E i \in Ids, o \in Orders : LocalPatch(i, o)
     \/ \E i \in Ids : LocalRemove(i)

NextShared ==
  \/ SharedCall
  \/ \E m \in {"create", "update", "patch", "remove"}, i \in Ids, o \in Orders :
       ForeignWrite(m, i, o)
  \/ \E u \in Uuids \cup {MintBase + 1} : LocalGet(u)
  \/ \E s \in Sorters : ChangeSort(s)
  \/ \E t \in 1..MaxCalls : RemoteApply(t)
  \/ \E t \in 1..MaxCalls : RemoteFail(t)
  \/ \E t \in 1..MaxCalls : Respond(t)
  \/ \E t \in 1..MaxCalls : Timeout(t)
  \/ ConnectStart("c1")
  \/ SnapshotFetch("c1")
  \/ SnapshotFail("c1")
  \/ SnapshotInstall("c1")
  \/ ReplayOk("c1")
  \/ ReplayFail("c1")
  \/ Disconnect

SpecShared == Init /\ [][NextShared]_vars

\* One client whose application calls connect() again while an earlier
\* connect() is still in progress.  The application patches record 0; every
\* remote call is answered or fails within the time limit.
OverlapCall == \E o \in Orders : LocalPatch(0, o)

NextOverlap ==
  \/ OverlapCall
  \/ \E t \in 1..MaxCalls : RemoteApply(t)
  \/ \E t \in 1..MaxCalls : RemoteFail(t)
  \/ \E t \in 1..MaxCalls : Respond(t)
  \/ \E c \in ConnIds : ConnectStartWithin(c, MaxOverlapConnects)
  \/ \E c \in ConnIds : SnapshotFetch(c)
  \/ \E c \in ConnIds : SnapshotFail(c)
  \/ \E c \in ConnIds : SnapshotInstall(c)
  \/ \E c \in ConnIds : ReplayOk(c)
  \/ \E c \in ConnIds : ReplayFail(c)
  \/ Disconnect

SpecOverlap == Init /\ [][NextOverlap]_vars

\* The engine's queue of net changes on its own: an application records
\* creates, updates and patches of records with or without a server id.
NetNames == {"create", "update", "patch"}
NetRecords == {Rec(i, u, o, NoVal) : i \in Ids \cup {NoVal}, u \in Uuids, o \in Orders}

NetEntry(eventName, localRecord) ==
  QEntry(eventName, localRecord,
         IF eventName = "create" THEN NoVal ELSE getId(localRecord),
         shallowClone(localRecord), 0)

NetEvent(eventName, localRecord) ==
  /\ queued' = AddQueuedNetEvent(queued, NetEntry(eventName, localRecord)).queued
  /\ UNCHANGED << records, syncedAt, last, listening, configVars, remote, registered,
                  calls, conn, now, emitted, result, nConnects, nForeign >>

NextNet == \E n \in NetNames, r \in NetRecords : NetEvent(n, r)

SpecNet == Init /\ [][NextNet]_vars

\* The engine's queue on its own: entries are pushed (_addQueuedEvent),
\* recorded as net changes (_addQueuedNetEvent) and taken out again
\* (_removeQueuedEvent), for records with or without a server id, as long as
\* the queue holds no more than MaxQueue entries.
QueueNames == {"create", "update", "patch", "remove"}
QueueRecords == {Rec(i, u, 0, NoVal) : i \in Ids \cup {NoVal}, u \in Uuids}
QueueTimes == {NoVal} \cup ((DOB + 1)..MaxTime)

QueuePush(eventName, localRecord) ==
  /\ Len(queued) < MaxQueue
  /\ queued' = AddQueuedEvent(queued, NetEntry(eventName, localRecord))
  /\ result' = Result("addQueuedEvent", "ok", Undef, 0)
  /\ UNCHANGED << records, syncedAt, last, listening, configVars, remote, registered,
                  calls, conn, now, emitted, nConnects, nForeign >>

QueueNet(eventName, localRecord) ==
  LET a == AddQueuedNetEvent(queued, NetEntry(eventName, localRecord))
  IN  /\ Len(a.queued) <= MaxQueue
      /\ queued' = a.queued
      /\ result' = Result("addQueuedNetEvent", IF a.throws THEN "BadRequest" ELSE "ok", Undef, 0)
      /\ UNCHANGED << records, syncedAt, last, listening, configVars, remote, registered,
                      calls, conn, now, emitted, nConnects, nForeign >>

Unqueue(eventName, localRecord, updatedAt) ==
  LET r == RemoveQueuedEvent(queued, syncedAt, eventName, localRecord, updatedAt)
  IN  /\ queued' = r.queued
      /\ syncedAt' = r.syncedAt
      /\ result' = Result("removeQueuedEvent", "ok", Undef, 0)
      /\ UNCHANGED << records, last, listening, configVars, remote, registered,
                      calls, conn, now, emitted, nConnects, nForeign >>

NextQueue ==
  \/ \E n \in QueueNames, r \in QueueRecords : QueuePush(n, r)
  \/ \E n \in QueueNames, r \in QueueRecords : QueueNet(n, r)
  \/ \E n \in QueueNames, r \in QueueRecords, u \in QueueTimes : Unqueue(n, r, u)

SpecQueue == Init /\ [][NextQueue]_vars

\* The engine's store on its own: service events (source 0) and optimistic
\* mutations (source 1) reach _mutateStore, for records with or without a
\* server id, inside and outside the publication, as long as the store holds
\* no more than MaxStore records.
StoreNames == {"created", "updated", "patched", "removed"}
StoreUuid(i) == IF i = NoVal THEN MintBase + 1 ELSE UuidBase + i
StoreRecords == {Rec(i, StoreUuid(i), o, NoVal) : i \in Ids \cup {NoVal}, o \in Orders}

StoreEvent(eventName, remoteRecord, source) ==
  LET m == MutateStore(records, pub, sorter, eventName, remoteRecord, source, now)
  IN  /\ Len(m.records) <= MaxStore
      /\ records' = m.records
      /\ last' = LastAfter(last, m.emit)
      /\ emitted' = Emit(<< >>, m.emit, 0)
      /\ result' = Result("mutateStore", "ok", m.ret, 0)
      /\ UNCHANGED << queued, syncedAt, listening, configVars, remote, registered,
                      calls, conn, now, nConnects, nForeign >>

NextStore == \E n \in StoreNames, r \in StoreRecords, s \in {0, 1} : StoreEvent(n, r, s)

SpecStore == Init /\ [][NextStore]_vars

(* ------------------------------ properties ----------------------------- *)
\* The remote collection and the local store as sets of records, timestamps
\* left out.
RemoteSet(coll) == {Strip(coll[i]) : i \in {j \in Ids : coll[j].obj}}
LocalSet(recs) == {Strip(recs[i]) : i \in 1..Len(recs)}
CallIds == 1..Len(calls)

\* A queue entry as the program holds it (the tag is history), the entries
\* of a queue, and the entry that mutation t enqueued.
Content(e) == [e EXCEPT !.tag = 0]
Contents(q) == [i \in 1..Len(q) |-> Content(q[i])]
EntryOf(t) == QEntry(calls[t].method, calls[t].localRecord, calls[t].id, calls[t].data, 0)
\* The remote call of mutation t failed or timed out and the remote service
\* did not carry it out (the remote was unreachable).
FailedOffline(t) == calls[t].client \in {"err", "timeout"} /\ calls[t].remote = "failed"

\* The step resolves connect("c1") with no replayed call having failed: the
\* only way out of a failed replay leaves the failing entry in the queue.
ConnectResolvesClean ==
  /\ conn["c1"].pc \in {"install", "replay"}
  /\ conn'["c1"].pc = "idle"
  /\ queued' = << >>

\* C1: when remote calls of local mutations failed or timed out, leaving the
\* remote collection unchanged, and every other call was confirmed, then at
\* the end of the next connect whose replay succeeds the remote collection
\* equals the local records as they were just before that connect
\* (timestamps aside; no publication).
C1_ReplayConverges ==
  [][(/\ ConnectResolvesClean
      /\ ~pub
      /\ \E t \in CallIds : FailedOffline(t)
      /\ \A t \in CallIds : FailedOffline(t) \/ calls[t].client = "ok")
     => RemoteSet(remote') = LocalSet(conn["c1"].before)]_vars

\* C2: the local call returns the record it applied optimistically, and
\* when its remote call fails or times out the records stay as they are and
\* the entry the call enqueued is still in the queue (no replay has taken
\* it yet; no publication).
C2_FailureKeepsEntry ==
  [][/\ (result'.outcome = "ok" /\ ~pub)
        => /\ result'.value.obj
           /\ result'.method # "remove"
                => \E i \in 1..Len(records') : records'[i] = result'.value
     /\ \A t \in CallIds :
          (/\ calls[t].client = "waiting"
           /\ calls'[t].client \in {"err", "timeout"}
           /\ calls'[t].remote # "applied"
           /\ calls[t].sent = 0
           /\ ~pub)
          => /\ records' = records
             /\ \E i \in 1..Len(queued') : Content(queued'[i]) = EntryOf(t)]_vars

\* C3: processQueuedEvents sends the entry at the head of the queue, one at
\* a time; when a replayed call fails it sends nothing more in that run,
\* the remote is untouched and the queue is the failing entry followed by
\* the entries not yet processed, in their order.
C3_ReplayInOrder ==
  [][/\ (conn'["c1"].pc = "replay" /\ conn'["c1"] # conn["c1"])
        => /\ Len(queued) > 0
           /\ conn'["c1"].el = Head(queued)
           /\ queued' = Tail(queued)
     /\ (conn["c1"].pc = "replay" /\ conn'["c1"] # conn["c1"] /\ now' = now)
        => /\ conn'["c1"].pc = "idle"
           /\ remote' = remote
           /\ queued' = << conn["c1"].el >> \o queued]_vars

\* A replay failed on the first of two queued entries and both are queued
\* again, the failing one at the head.
C3_Witness ==
  /\ Len(queued) = 2
  /\ queued[1].tag = 1 /\ queued[2].tag = 2
  /\ calls[1].sent = 1 /\ calls[1].writes = 0
  /\ conn["c1"].pc = "idle"

\* C4: when the remote call of a mutation succeeds, the entry taken out of
\* the queue is the one that mutation enqueued (no publication).
C4_RemovesOwnEntry ==
  [][\A t \in CallIds :
       (calls[t].client = "waiting" /\ calls'[t].client = "ok" /\ ~pub)
       => LET own == {i \in 1..Len(queued) : queued[i].tag = t}
          IN  IF own = {} THEN Contents(queued') = Contents(queued)
              ELSE \E i \in own : Contents(queued') = Contents(Splice(queued, i))]_vars

\* C5 as stated: every mutation whose remote call the remote carried out
\* has emitted exactly two events, source 1 then source 0.
C5_TwoEvents ==
  \A t \in CallIds : calls[t].remote = "applied" => calls[t].seen = << 1, 0 >>

\* C5 amended: for a mutation whose record passed the publication when it
\* was applied optimistically, the events are the optimistic one (source 1)
\* first, followed by at most the confirmation (source 0); when the remote
\* carries out the call while the engine is listening and the record it
\* pushes passes the publication, they are exactly these two.
C5_TwoEventsWhileListening ==
  /\ [](\A t \in CallIds :
          calls[t].localRecord.obj => calls[t].seen \in {<< 1 >>, << 1, 0 >>})
  /\ [][\A t \in CallIds :
          (/\ calls[t].remote = "pending"
           /\ calls'[t].remote = "applied"
           /\ listening
           /\ calls[t].localRecord.obj
           /\ Publication(pub, calls'[t].res))
          => calls'[t].seen = << 1, 0 >>]_vars

\* A mutation made and confirmed while connected has emitted its two events.
C5_Witness ==
  \E t \in CallIds : calls[t].client = "ok" /\ calls[t].seen = << 1, 0 >> /\ listening

\* Every call so far is an update of one record whose remote call failed
\* without the remote carrying it out.
UpdatesFailedOffline ==
  /\ Len(calls) >= 1
  /\ \A t \in CallIds :
       calls[t].method = "update" /\ calls[t].id = calls[1].id /\ FailedOffline(t)

\* C6 as stated: after k offline updates of one record the queue holds one
\* entry, carrying the data of the last update.
C6_OneEntry ==
  (UpdatesFailedOffline /\ \A t \in CallIds : calls[t].sent = 0)
  => (Len(queued) = 1 /\ Content(queued[1]) = EntryOf(Len(calls)))

\* C6 amended: after k offline updates of one record the queue holds k
\* entries, one per update in call order (the last carrying the data of the
\* last update), and once a connect has replayed the queue the remote has
\* carried out every one of them once (k 'updated' events).
C6_OneEntryPerUpdate ==
  /\ (UpdatesFailedOffline /\ \A t \in CallIds : calls[t].sent = 0)
     => (Len(queued) = Len(calls) /\ \A t \in CallIds : Content(queued[t]) = EntryOf(t))
  /\ (UpdatesFailedOffline /\ queued = << >> /\ conn["c1"].pc = "idle")
     => \A t \in CallIds : calls[t].writes = 1

\* Two offline updates of one record with different data, both replayed.
C6_Witness ==
  /\ UpdatesFailedOffline
  /\ Len(calls) = 2
  /\ calls[1].data # calls[2].data
  /\ queued = << >>
  /\ conn["c1"].pc = "idle"
  /\ \A t \in CallIds : calls[t].writes = 1

\* Every call so far is an update of one record whose remote call timed out.
UpdatesTimedOut ==
  /\ Len(calls) >= 1
  /\ \A t \in CallIds :
       calls[t].method = "update" /\ calls[t].id = calls[1].id /\ calls[t].client = "timeout"

\* How often the replay made the remote carry out mutation t.
Replayed(cs, t) == cs[t].writes - (IF cs[t].remote = "applied" THEN 1 ELSE 0)

\* C7: after k updates of one record whose remote calls all timed out, when
\* the connect that replays them resolves (with its last replayed call),
\* the replay has made the remote carry out each update exactly once (k
\* 'updated' events) and the remote record is the client's last local value.
C7_ReplaysEachOnce ==
  [][(ConnectResolvesClean /\ conn["c1"].pc = "replay" /\ UpdatesTimedOut)
     => /\ \A t \in CallIds : Replayed(calls', t) = 1
        /\ Strip(remote'[calls[1].id]) = Strip(calls[Len(calls)].data)]_vars

\* Two timed-out updates of one record with different data are replayed and
\* the remote holds the second.
C7_Witness ==
  /\ UpdatesTimedOut
  /\ Len(calls) = 2
  /\ calls[1].data # calls[2].data
  /\ \A t \in CallIds : calls[t].sent = 1 /\ Replayed(calls, t) = 1
  /\ queued = << >>
  /\ listening
  /\ Strip(remote[calls[1].id]) = Strip(calls[2].data)

\* C8: a local create, update, patch or remove made while the replicator is
\* not connected is rejected with BadRequest; it starts no remote call,
\* emits nothing and leaves records, queued, syncedAt and the remote alone.
C8_OfflineRejected ==
  [][(~listening /\ result'.method # "")
     => /\ result'.outcome = "BadRequest"
        /\ emitted' = << >>
        /\ UNCHANGED << records, queued, syncedAt, calls, remote >>]_vars

\* A patch of a record in the store was rejected after disconnect().
C8_Witness ==
  /\ ~listening
  /\ result.method = "patch" /\ result.outcome = "BadRequest"
  /\ \E i \in 1..Len(records) : records[i].id = 0

C10_QueueEmptyAfterConnect ==
  [][(/\ conn["c1"].pc = "install" \/ (conn["c1"].pc = "replay" /\ now' # now)
      /\ conn'["c1"].pc = "idle")
     => queued' = << >>]_vars

\* A connect has replayed a queued mutation and resolved with an empty queue.
C10_Witness ==
  /\ conn["c1"].pc = "idle"
  /\ listening
  /\ queued = << >>
  /\ \E t \in CallIds : FailedOffline(t) /\ calls[t].sent = 1 /\ calls[t].writes = 1


\* C11: store.syncedAt never decreases, whatever step is taken: a connect,
\* the installation of a snapshot, the confirmation of a remote write, a
\* remote event.
C11_SyncedAtNeverDecreases == [][syncedAt' >= syncedAt]_vars


\* C12: in every reachable state the entries of store.queued stand in the
\* order in which their local mutations were issued (the tag of an entry is
\* the number of its call).
C12_QueueInIssueOrder ==
  \A i, j \in 1..Len(queued) : i < j => queued[i].tag < queued[j].tag


\* C13: with a publication configured every record of store.records
\* satisfies it, in every state reached through connect, remote events and
\* local optimistic mutations.
C13_RecordsInPublication ==
  pub => \A i \in 1..Len(records) :
           records[i].order # NoVal /\ records[i].order <= PubLimit

\* A record has just left the publication while another one stays.
C13_Witness ==
  /\ pub
  /\ records # << >>
  /\ \E k \in 1..Len(emitted) : emitted[k].ev.action = "left-pub"

\* C14: no two records of store.records share a server id and no two share a
\* uuid.
C14_IdsAndUuidsUnique ==
  \A i, j \in 1..Len(records) :
    i # j => records[i].id # records[j].id /\ records[i].uuid # records[j].uuid


\* C15 as stated: with a sort function configured store.records is ordered
\* by it in every state (after every snapshot, every local or remote
\* mutation, every changeSort): no record stands before one the function
\* puts in front of it.
Ordered(recs) ==
  \A i, j \in 1..Len(recs) : i < j => Compare(sorter, recs[i], recs[j]) <= 0

Keyed(r) == IF sorter = "order" THEN r.order # NoVal ELSE r.id # NoVal

ChangeSortStep == emitted' # << >> /\ emitted'[1].ev.action = "change-sort"

Actions(log) == [k \in 1..Len(log) |-> log[k].ev.action]
Has(log, action) == \E k \in 1..Len(log) : log[k].ev.action = action
SendsReplay == \E t \in CallIds : calls'[t].sent > calls[t].sent

C16_ConnectInOrder ==
  /\ [](conn["c1"].pc # "idle" => ~listening)
  /\ [][LET pc == conn["c1"].pc
            pc2 == conn'["c1"].pc
        IN  /\ (pc = "idle" /\ pc2 # "idle") =>
                 /\ pc2 = "fetch"
                 /\ Actions(emitted') = IF listening THEN << "remove-listeners" >> ELSE << >>
                 /\ ~SendsReplay
                 /\ UNCHANGED << records, queued, syncedAt >>
            /\ (pc = "fetch" /\ pc2 # "fetch") =>
                 /\ pc2 \in {"install", "idle"}
                 /\ emitted' = << >>
                 /\ ~SendsReplay
            /\ (pc = "install" /\ pc2 # "install") =>
                 /\ pc2 \in {"replay", "idle"}
                 /\ emitted'[1].ev.action = "snapshot"
                 /\ pc2 = "replay" <=> queued # << >>
                 /\ pc2 = "replay" <=> SendsReplay
            /\ Has(emitted', "snapshot") => pc = "install"
            /\ SendsReplay => pc \in {"install", "replay"} /\ pc2 = "replay"
            /\ Has(emitted', "add-listeners") <=> (pc \in {"install", "replay"} /\ pc2 = "idle")
            /\ Has(emitted', "add-listeners") =>
                 /\ emitted'[Len(emitted')].ev.action = "add-listeners"
                 /\ ~Has(SubSeq(emitted', 1, Len(emitted') - 1), "add-listeners")
                 /\ listening'
                 /\ ~SendsReplay]_vars

\* A connect called while listening has replayed a queued entry and has just
\* attached the listeners again.
C16_Witness ==
  /\ conn["c1"].pc = "idle"
  /\ listening
  /\ nConnects = 2
  /\ \E t \in CallIds : calls[t].sent > 0
  /\ emitted # << >>
  /\ emitted[Len(emitted)].ev.action = "add-listeners"


\* C17: when the snapshot fetch fails, the step by which connect rejects
\* changes nothing: records (still as they were when connect was called),
\* queued and syncedAt keep their values, no queued entry is replayed, no
\* event is emitted and listening is false afterwards.
C17_SnapshotFailureChangesNothing ==
  [][(conn["c1"].pc = "fetch" /\ conn'["c1"].pc = "idle") =>
       /\ UNCHANGED << records, queued, syncedAt, last, registered, calls, remote >>
       /\ records' = conn["c1"].before
       /\ ~SendsReplay
       /\ emitted' = << >>
       /\ ~listening /\ ~listening']_vars

\* The first connect has been rejected: the store is as constructed.
C17_Witness ==
  /\ nConnects = 1
  /\ conn["c1"].pc = "idle"
  /\ ~listening
  /\ records = << >> /\ syncedAt = DOB
  /\ remote[0].obj


\* C18: disconnect sets connected to false and leaves records, queued and
\* syncedAt unchanged; 'remove-listeners' is emitted by it if and only if the
\* engine was listening; a change on the remote service after it does not
\* change records and emits nothing.
C18_DisconnectDetaches ==
  /\ [][(listening /\ ~listening' /\ conn' = conn) =>
          /\ UNCHANGED << records, queued, syncedAt, remote, calls >>
          /\ Actions(emitted') = << "remove-listeners" >>]_vars
  /\ [][Has(emitted', "remove-listeners") => listening /\ ~listening']_vars
  /\ [][(~listening /\ conn["c1"].pc = "idle" /\ remote' # remote) =>
          /\ records' = records
          /\ emitted' = << >>]_vars

\* After connect and disconnect another client has created record 1 on the
\* remote service; the store still holds record 0 only.
C18_Witness ==
  /\ ~pub
  /\ nConnects = 1 /\ conn["c1"].pc = "idle" /\ syncedAt > DOB
  /\ ~listening
  /\ nForeign = 1 /\ remote[1].obj
  /\ Len(records) = 1 /\ records[1].id = 0
  /\ calls = << >>


\* C19: a remote call that succeeds only after its time limit has elapsed
\* has no effect on the client: the step in which the remote carries it out
\* changes neither queued nor syncedAt, and the call stays settled as timed
\* out (no later step confirms it).
C19_LateSuccessIgnored ==
  [][\A t \in CallIds :
       calls[t].client = "timeout" =>
         /\ calls'[t].client = "timeout"
         /\ (calls[t].remote = "pending" /\ calls'[t].remote = "applied") =>
              /\ queued' = queued
              /\ syncedAt' = syncedAt]_vars

\* A call has timed out, the remote has carried it out all the same, and its
\* entry is still queued.
C19_Witness ==
  \E t \in CallIds :
    /\ calls[t].client = "timeout"
    /\ calls[t].remote = "applied"
    /\ calls[t].sent = 0
    /\ \E i \in 1..Len(queued) : queued[i].tag = t


\* C20: a time-limited remote call resolves with a pair that is exactly one
\* of (null, the remote's response) on success within the limit, (the
\* remote's error, null) on failure within the limit, and
\* ({ timeout: true, args, limit }, null) when the limit elapses first.
C20_ResolvesWithResponseOrError ==
  \A t \in CallIds :
    LET c == calls[t]
        p == TimeLimitResult(c)
    IN  c.client # "waiting" =>
          \/ c.client = "ok" /\ p = << Null, c.res >>
          \/ c.client = "err" /\ p = << RemoteError, Null >>
          \/ c.client = "timeout" /\ p = << TimeLimitTimeout(<< c.id, c.data >>), Null >>

\* What does hold of the pair: the call resolves once, with exactly one side
\* null; the other side is { res, limit } holding the remote's response (on
\* success within the limit), { err, limit } holding the remote's error (on
\* failure within the limit) or { timeout: true, args, limit }.
SettlesOnceOneSided ==
  /\ [](\A t \in CallIds :
          LET c == calls[t]
              p == TimeLimitResult(c)
          IN  c.client # "waiting" =>
                /\ (p[1] = Null) # (p[2] = Null)
                /\ c.client = "ok" <=> p[1] = Null
                /\ c.client = "ok" => p[2].res = c.res /\ c.remote = "applied"
                /\ c.client = "err" => p[1].err = RemoteError /\ c.remote = "failed")
  /\ [][\A t \in CallIds : calls[t].client # "waiting" => calls'[t].client = calls[t].client]_vars


\* C21: after a local create, update or patch is confirmed by the remote
\* within the time limit, the entry of that mutation is no longer in queued
\* and store.syncedAt equals the updatedAt of the record the remote returned.
C21_ConfirmationAdvancesSyncedAt ==
  [][\A t \in CallIds :
       (calls[t].client = "waiting" /\ calls'[t].client = "ok"
        /\ calls[t].method \in {"create", "update", "patch"}) =>
         /\ ~\E i \in 1..Len(queued') : queued'[i].tag = t
         /\ syncedAt' = calls[t].res.updatedAt]_vars


\* C22: a local call rejected by a precondition - get of an absent uuid,
\* update, patch or remove of an absent id (NotFound), create with a uuid
\* already present locally, update whose data has no uuid (BadRequest) -
\* leaves records, queued and syncedAt unchanged, emits no event and issues
\* no remote call.
C22_RejectionChangesNothing ==
  [][(result'.method # "" /\ result'.outcome \in {"NotFound", "BadRequest"}) =>
       /\ UNCHANGED << records, queued, syncedAt, last, calls, remote >>
       /\ emitted' = << >>]_vars

\* A create is rejected while connected, with records in the store.
C22_Witness ==
  /\ listening
  /\ Len(records) > 0
  /\ result.method = "create"
  /\ result.outcome = "BadRequest"

\* C23: after an accepted update(id, data), the record whose server id is id
\* has been replaced by data carrying the uuid that record had before the
\* call, whatever id data contained, and no other record has been added to
\* or removed from records.
C23_UpdateReplacesInPlace ==
  [][\A id \in Ids, dId \in Ids, o \in Orders :
       (LocalUpdate(id, dId, TRUE, o) /\ result'.outcome = "ok") =>
         LET before == Strip(records[findIdIndex(records, id)])
             after == Strip(Rec(dId, before.uuid, o, now))
         IN  /\ LocalSet(records') = (LocalSet(records) \ {before}) \cup {after}
             /\ Len(records') = Len(records)]_vars

\* C24: at the moment a 'mutated' event is emitted, records contains a record
\* with the server id of the event's record; at the moment a 'remove' or
\* 'left-pub' event is emitted, records contains no record with that server
\* id.  Stated for event records that have a server id.
C24_EventsAgreeWithRecords ==
  [][\A e \in 1..Len(emitted') :
       LET ev == emitted'[e].ev
           present == \E k \in 1..Len(records') : records'[k].id = ev.record.id
       IN  ev.record.id # NoVal =>
             /\ ev.action = "mutated" => present
             /\ ev.action \in {"remove", "left-pub"} => ~present]_vars

\* A record has just left the publication and another record is still in
\* the store.
C24_Witness ==
  /\ emitted # << >>
  /\ emitted[1].ev.action = "left-pub"
  /\ Len(records) > 0

\* C25: after any sequence of addQueuedNetEvent calls for records of one
\* uuid, none of which is a remove, queued contains at most one entry for
\* that uuid, and it carries the event name and args of the last call.
C25_OneNetEntryPerUuid ==
  [][\A n \in NetNames, r \in NetRecords :
       NetEvent(n, r) =>
         LET mine == {i \in 1..Len(queued') : queued'[i].record.uuid = r.uuid}
         IN  /\ Cardinality(mine) <= 1
             /\ \A i \in mine :
                  /\ queued'[i].eventName = n
                  /\ queued'[i].argId = NetEntry(n, r).argId
                  /\ queued'[i].argData = NetEntry(n, r).argData]_vars

\* C26: after every emitted event - snapshot, add-listeners, remove-listeners,
\* change-sort, mutated, remove, left-pub - store.last equals the descriptor
\* that was passed to the 'events' observers and to the subscriber callback
\* for that event.
C26_LastIsEmittedDescriptor ==
  [][emitted' # << >> => last' = emitted'[Len(emitted')].ev]_vars

\* C27: an 'add-listeners' event is emitted exactly when listening changes
\* from false to true and a 'remove-listeners' event exactly when it changes
\* from true to false; a call that does not change the listening flag
\* (removeListeners while idle, addListeners while already listening) emits
\* nothing.
C27_ListenerEventsOnTransitions ==
  [][LET adds == Cardinality({e \in 1..Len(emitted') : emitted'[e].ev.action = "add-listeners"})
         rems == Cardinality({e \in 1..Len(emitted') : emitted'[e].ev.action = "remove-listeners"})
     IN  /\ adds = IF ~listening /\ listening' THEN 1 ELSE 0
         /\ rems = IF listening /\ ~listening' THEN 1 ELSE 0]_vars

\* The records with a server id that reach _mutateStore, and whether a record
\* passes the publication of the configuration (none when pub is off).
KeyedStoreRecords == {r \in StoreRecords : r.id # NoVal}
Passes(r) == ~pub \/ (r.order # NoVal /\ r.order <= PubLimit)
HasId(recs, id) == \E k \in 1..Len(recs) : recs[k].id = id
Without(recs, id) == SelectSeq(recs, LAMBDA x : x.id # id)

\* C28: for a 'removed' event, mutateStore leaves no record with that server
\* id in records, returns the record that was there before (none if absent),
\* and emits 'remove' if and only if the record was present or the event is
\* remote (source 0) and its record passes the publication; a remote remove
\* of a record outside the publication (absent from records, failing the
\* filter) changes nothing and emits nothing.
C28_RemovedEvent ==
  [][\A r \in KeyedStoreRecords, s \in {0, 1} :
       StoreEvent("removed", r, s) =>
         LET index == findIdIndex(records, r.id)
         IN  /\ ~HasId(records', r.id)
             /\ records' = Without(records, r.id)
             /\ result'.value = IF index > 0 THEN records[index] ELSE Undef
             /\ emitted' = IF index > 0 \/ (s = 0 /\ Passes(r))
                           THEN << Logged(Event(s, "remove", "removed", r), 0) >>
                           ELSE << >>
             /\ (index = 0 /\ s = 0 /\ ~Passes(r)) =>
                  /\ records' = records
                  /\ last' = last
                  /\ emitted' = << >>]_vars

\* A remote 'removed' event has taken a record out of a store of two.
C28_Witness ==
  /\ result.method = "mutateStore"
  /\ result.value.obj
  /\ emitted # << >>
  /\ emitted[1].ev.action = "remove"
  /\ emitted[1].ev.source = 0
  /\ Len(records) = 1

\* C29: for a created, updated or patched event whose record fails the
\* publication, mutateStore leaves no record with that server id in records
\* and emits 'left-pub' if and only if such a record was present before; when
\* it was absent, records is unchanged and nothing is emitted.
C29_LeavesPublication ==
  [][\A n \in StoreNames \ {"removed"}, r \in KeyedStoreRecords, s \in {0, 1} :
       (StoreEvent(n, r, s) /\ ~Passes(r)) =>
         LET present == HasId(records, r.id)
         IN  /\ ~HasId(records', r.id)
             /\ records' = Without(records, r.id)
             /\ emitted' = IF present
                           THEN << Logged(Event(s, "left-pub", n, r), 0) >>
                           ELSE << >>
             /\ ~present => (records' = records /\ last' = last)]_vars

\* A record has left the publication by a remote patch; another one stays.
C29_Witness ==
  /\ result.method = "mutateStore"
  /\ emitted # << >>
  /\ emitted[1].ev.action = "left-pub"
  /\ emitted[1].ev.eventName = "patched"
  /\ emitted[1].ev.source = 0
  /\ Len(records) > 0

\* C30: for a created, updated or patched event whose record passes the
\* publication (or when none is configured), after mutateStore records
\* contains exactly one record with that server id, its content is the
\* incoming record, all other records are unchanged, one 'mutated' event is
\* emitted and the incoming record is returned - also when the record was
\* outside the view before.
C30_EntersOrStays ==
  [][\A n \in StoreNames \ {"removed"}, r \in KeyedStoreRecords, s \in {0, 1} :
       (StoreEvent(n, r, s) /\ Passes(r)) =>
         LET mine == {k \in 1..Len(records') : records'[k].id = r.id}
             stamped == [r EXCEPT !.updatedAt = now]
         IN  /\ Cardinality(mine) = 1
             /\ \A k \in mine : Strip(records'[k]) = Strip(r)
             /\ Without(records', r.id) = Sorted(sorter, Without(records, r.id))
             /\ emitted' = << Logged(Event(s, "mutated", n, stamped), 0) >>
             /\ result'.value = stamped]_vars

\* A record that was not in the store has entered it next to another one.
C30_Witness ==
  /\ result.method = "mutateStore"
  /\ result.value.obj
  /\ emitted # << >>
  /\ emitted[1].ev.action = "mutated"
  /\ Len(records) = 2
  /\ last = emitted[1].ev

\* C31: removeQueuedEvent(eventName, record, updatedAt) removes exactly the
\* newest queued entry whose record has the same uuid as record and whose
\* eventName equals eventName, removes nothing when there is no such entry,
\* leaves all other entries and their order unchanged, and sets syncedAt to
\* updatedAt when updatedAt is given.
C31_RemovesNewestOfUuid ==
  [][\A n \in QueueNames, r \in QueueRecords, u \in QueueTimes :
       Unqueue(n, r, u) =>
         LET mine == {i \in 1..Len(queued) :
                        queued[i].record.uuid = r.uuid /\ queued[i].eventName = n}
         IN  /\ queued' = IF mine = {} THEN queued
                          ELSE Splice(queued, CHOOSE i \in mine : \A j \in mine : j <= i)
             /\ u # NoVal => syncedAt' = u
             /\ u = NoVal => syncedAt' = syncedAt]_vars

\* C32: in addQueuedNetEvent, when the newest queued entry for the same record
\* is a remove, a following create is inserted as a separate entry immediately
\* after that remove, and any other following event fails with BadRequest and
\* leaves queued unchanged.  Stated for records with a server id.
C32_AfterRemove ==
  [][\A n \in QueueNames, r \in QueueRecords :
       (QueueNet(n, r) /\ r.id # NoVal) =>
         LET index == FindIndexReversed([i \in 1..Len(queued) |->
                                           queued[i].record.id = r.id])
         IN  (index > 0 /\ queued[index].eventName = "remove") =>
               IF n = "create"
               THEN /\ queued' = SubSeq(queued, 1, index) \o << NetEntry(n, r) >>
                                   \o SubSeq(queued, index + 1, Len(queued))
                    /\ result'.outcome = "ok"
               ELSE /\ queued' = queued
                    /\ result'.outcome = "BadRequest"]_vars

\* The server id of the record local call t is about.
TargetId(c) == IF c.method = "create" THEN c.data.id ELSE c.id

\* C33: after connect resolves with every replayed call succeeding and no
\* other client writing, store.records reflects every replayed mutation: each
\* record created, updated or patched by a replayed entry is in records with
\* the replayed content (the content the remote holds after the replay, if it
\* passes the publication), and each record removed by a replayed entry is
\* absent.
C33_RecordsReflectReplay ==
  [][(ConnectResolvesClean /\ conn["c1"].pc = "replay") =>
       \A t \in CallIds :
         (calls'[t].sent > 0 /\ TargetId(calls[t]) # NoVal) =>
           LET id == TargetId(calls[t])
           IN  IF remote'[id].obj /\ Passes(remote'[id])
               THEN \E k \in 1..Len(records') : Strip(records'[k]) = Strip(remote'[id])
               ELSE ~HasId(records', id)]_vars

\* C34: no local mutation is applied to the remote service more than once:
\* processQueuedEvents never sends a queued entry while the original remote
\* call of that mutation is still outstanding, nor after that call has
\* succeeded on the remote (including a success that arrives after the time
\* limit).
C34_AppliedAtMostOnce ==
  /\ [](\A t \in CallIds : calls[t].writes <= 1)
  /\ [][\A t \in CallIds :
          calls'[t].sent > calls[t].sent => calls[t].remote = "failed"]_vars

\* C35: each remote change event is applied to the store at most once and
\* only while listening is true: the engine's handlers are registered on the
\* remote service at most once at any time, also when two connect calls
\* overlap, so a single disconnect detaches all of them.
C35_RegisteredAtMostOnce ==
  /\ [](registered <= 1 /\ (registered > 0 => listening))
  /\ [][Cardinality({e \in 1..Len(emitted') : emitted'[e].ev.source = 0}) <= 1]_vars

\* C36: a change another client makes on the remote after connect has fetched
\* its snapshot and before connect attaches the listeners is reflected in
\* store.records once connect has resolved; no remote change made during a
\* connect is missed.  Stated for a connect that fetches the whole collection
\* (syncedAt was DOB) of a client that has made no local call: when it
\* resolves, records holds the remote's records that pass the publication.
C36_NoChangeMissed ==
  [][(/\ conn["c1"].pc \in {"install", "replay"}
      /\ conn'["c1"].pc = "idle"
      /\ listening'
      /\ calls = << >>
      /\ conn["c1"].since = DOB)
     => LocalSet(records') = {r \in RemoteSet(remote') : Passes(r)}]_vars

\* records shows, for every record that has an entry in q, the result of the
\* newest such entry: the entry's record, or no record of that id for a
\* remove.
ShowsQueued(recs, q) ==
  \A i \in 1..Len(q) :
    (/\ q[i].record.obj
     /\ q[i].record.id # NoVal
     /\ \A j \in (i + 1)..Len(q) : q[j].record.id # q[i].record.id)
    => IF q[i].eventName = "remove" THEN ~HasId(recs, q[i].record.id)
       ELSE \E k \in 1..Len(recs) : Strip(recs[k]) = Strip(q[i].record)

\* C37: while the entry of a local mutation of a record is still in queued
\* and no snapshot has been taken since, store.records shows the result of
\* the most recent such local mutation for that record (for a remove: no
\* record with that id), whichever remote events for that record arrive in
\* the meantime: a step that applies a remote event keeps it so.
C37_QueuedMutationShown ==
  [][(/\ \E e \in 1..Len(emitted') : emitted'[e].ev.source = 0
      /\ ShowsQueued(records, queued))
     => ShowsQueued(records', queued')]_vars

\* C38: a successful connect never removes from store.records a record that
\* still exists unchanged on the remote and satisfies the query and the
\* publication, whatever value syncedAt had before the connect (in particular
\* on a second connect with updatedAt tracking enabled).
C38_ConnectKeepsUnchanged ==
  [][(/\ conn["c1"].pc \in {"install", "replay"}
      /\ conn'["c1"].pc = "idle"
      /\ listening')
     => \A k \in 1..Len(conn["c1"].before) :
          LET r == conn["c1"].before[k]
          IN  (/\ r.id # NoVal
               /\ remote'[r.id].obj
               /\ Strip(remote'[r.id]) = Strip(r)
               /\ Passes(r))
              => \E j \in 1..Len(records') : Strip(records'[j]) = Strip(r)]_vars

\* A step of processQueuedEvents sends each entry once and, within one run,
\* never an entry it has sent before (entries are queued in the order of
\* their tags, and the run takes them from the head).
SendsEachOnce ==
  \A t \in 1..Len(calls) :
    calls'[t].sent > calls[t].sent =>
      /\ calls'[t].sent = calls[t].sent + 1
      /\ conn'["c1"].pc = "replay" /\ conn'["c1"].el.tag = t
      /\ conn["c1"].pc = "replay" => t > conn["c1"].el.tag

\* C39 as stated: provided the snapshot fetch and every replayed remote call
\* eventually settle, connect eventually resolves with listening true, and
\* processQueuedEvents makes at most one remote call per entry that was in
\* queued when it started.
C39_ConnectResolvesListening ==
  /\ (conn["c1"].pc = "fetch") ~> (conn["c1"].pc = "idle" /\ listening)
  /\ [][conn["c1"].pc # "idle" /\ conn'["c1"].pc = "idle" => listening']_vars
  /\ [][SendsEachOnce]_vars

\* C39: provided the snapshot fetch and every replayed remote call eventually
\* settle, connect eventually settles; it rejects with listening false when
\* the snapshot fetch fails and otherwise resolves with listening true, and
\* processQueuedEvents makes at most one remote call per entry that was in
\* queued when it started.
C39_ConnectSettles ==
  /\ (conn["c1"].pc # "idle") ~> (conn["c1"].pc = "idle")
  /\ [][conn["c1"].pc \in {"install", "replay"} /\ conn'["c1"].pc = "idle"
          => listening']_vars
  /\ [][conn["c1"].pc = "fetch" /\ conn'["c1"].pc = "idle" => ~listening']_vars
  /\ [][SendsEachOnce]_vars

\* A connect has resolved after a run of processQueuedEvents that sent an
\* entry, had its call rejected and put the entry back.
C39_Witness ==
  /\ conn["c1"].pc = "idle"
  /\ listening
  /\ Len(queued) > 0
  /\ \E t \in 1..Len(calls) : calls[t].sent = 1 /\ queued[1].tag = t

\* C40: a local create (source 1) or a remote event (source 0) whose record
\* has neither an id nor an _id field never removes or replaces a record that
\* is already in store.records: every other record (one with another uuid)
\* of records is still there, unchanged, after the step.
C40_IdlessKeepsRecords ==
  [][\A n \in StoreNames, s \in {0, 1} :
       \A r \in StoreRecords \ KeyedStoreRecords :
         (StoreEvent(n, r, s) /\ (s = 1 => n = "created")) =>
           \A k \in 1..Len(records) :
             records[k].uuid # r.uuid =>
               \E j \in 1..Len(records') : records'[j] = records[k]]_vars

====
